---- MODULE Spec2Model ----
(***************************************************************************)
(* The PokeAPI extract-load-transform pipeline of lab-m1w1.py              *)
(* (solutions.py is the same program with limit 10 and pad width 10).      *)
(*                                                                         *)
(* State: the DuckDB file pokedex.duckdb (which tables exist, and the rows *)
(* of metadata, pokedex and pokemon_stats), the parquet files on disk, the *)
(* outcome of the last call, and the position and locals of main().        *)
(*                                                                         *)
(* Text is modelled as a sequence of tokens: one token per character,      *)
(* except that a run of characters the regular expression takes or leaves  *)
(* as a whole ("pokemon", "item", "https://pokeapi.co/api/v2") is one      *)
(* token.                                                                  *)
(***************************************************************************)
EXTENDS Integers, Sequences, FiniteSets, TLC

VARIABLES
    tables,         \* names of the tables that exist in pokedex.duckdb
    metadata,       \* rows of metadata(last_id)
    pokedex,        \* rows of pokedex(last_id, pokemon_id, name, url)
    pokemon_stats,  \* rows of pokemon_stats(total_pokemon, first_id, last_id)
    files,          \* parquet files on disk: file name -> rows (name, url)
    source_bad,     \* the source: None, or <<u>> when it serves record 2 with locator u
    ret,            \* the last call: its arguments and what it returned or raised
    pc,             \* main(): the statement it is at
    file_path_1, new_last_id_1, file_path_2, new_last_id_2,  \* main(): locals
    runs,           \* history: number of runs of main() started
    aborted,        \* history: number of runs of main() ended by an exception
    requests,       \* history: offsets main() asked the source for, in order
    loaded          \* history: batches main() inserted: requested offset, tag

storeVars  == <<tables, metadata, pokedex, pokemon_stats, files>>
mainVars   == <<pc, file_path_1, new_last_id_1, file_path_2, new_last_id_2,
                runs, aborted, requests, loaded>>
vars       == <<tables, metadata, pokedex, pokemon_stats, files, source_bad, ret,
                pc, file_path_1, new_last_id_1, file_path_2, new_last_id_2,
                runs, aborted, requests, loaded>>

---------------------------------------------------------------------------
(* Bounds of the model. *)

\* Number of records the source holds; record i has identifier i.
CatalogSize == 1001
\* Rows the pokedex table may hold when calls are made in any order.
MaxRows == 2
\* Runs of main() explored.
MaxRuns == 3

(* Program constants. *)

\* zfill(3) of the file name.
PadWidth == 3
\* limit=30 of both extract_data calls of main().
MainLimit == 30

\* Python None / SQL NULL is the empty sequence, a value v is <<v>>.
None == <<>>
Some(v) == <<v>>

---------------------------------------------------------------------------
(* Text conversions. *)

DigitTokens == <<"0", "1", "2", "3", "4", "5", "6", "7", "8", "9">>

IsDigit(c) == \E d \in 1..10 : DigitTokens[d] = c

DigitVal(c) == (CHOOSE d \in 1..10 : DigitTokens[d] = c) - 1

RECURSIVE Digits(_)
\* str(n) for n >= 0
Digits(n) ==
    IF n < 10 THEN <<DigitTokens[n + 1]>>
    ELSE Append(Digits(n \div 10), DigitTokens[(n % 10) + 1])

\* str(n)
Str(n) == IF n < 0 THEN <<"-">> \o Digits(-n) ELSE Digits(n)

RECURSIVE Zeros(_)
Zeros(k) == IF k <= 0 THEN <<>> ELSE <<"0">> \o Zeros(k - 1)

\* s.zfill(width): pads on the left with "0", after a leading sign; never cuts
Zfill(s, width) ==
    IF Len(s) >= width THEN s
    ELSE IF Len(s) > 0 /\ s[1] \in {"-", "+"}
         THEN <<s[1]>> \o Zeros(width - Len(s)) \o Tail(s)
         ELSE Zeros(width - Len(s)) \o s

\* Mutant: the offset is left out of the file name.
FilePathFixed(last_id) == <<"pokedex_">> \o Zeros(PadWidth) \o <<".parquet">>

\* f"pokedex_{str(last_id).zfill(3)}.parquet"
FilePath(last_id) == <<"pokedex_">> \o Zfill(Str(last_id), PadWidth) \o <<".parquet">>

RECURSIVE DigitRun(_, _)
\* length of the longest run of digits of s that starts at position i
DigitRun(s, i) ==
    IF i <= Len(s) /\ IsDigit(s[i]) THEN 1 + DigitRun(s, i + 1) ELSE 0

\* Mutant: the pattern without its closing slash, '/pokemon/(\d+)'.
MatchesAtOpen(s, i) ==
    /\ i + 3 <= Len(s)
    /\ s[i] = "/" /\ s[i + 1] = "pokemon" /\ s[i + 2] = "/"
    /\ DigitRun(s, i + 3) >= 1

\* '/pokemon/(\d+)/' matches s at position i
MatchesAt(s, i) ==
    /\ i + 4 <= Len(s)
    /\ s[i] = "/" /\ s[i + 1] = "pokemon" /\ s[i + 2] = "/"
    /\ DigitRun(s, i + 3) >= 1
    /\ i + 3 + DigitRun(s, i + 3) <= Len(s)
    /\ s[i + 3 + DigitRun(s, i + 3)] = "/"

\* regexp_extract(url, '/pokemon/(\d+)/', 1): group 1 of the leftmost match,
\* the empty string when nothing matches
RegexpExtract(url) ==
    IF \E i \in 1..Len(url) : MatchesAt(url, i)
    THEN LET i == CHOOSE j \in 1..Len(url) :
                     MatchesAt(url, j) /\ \A k \in 1..(j - 1) : ~MatchesAt(url, k)
         IN  SubSeq(url, i + 3, i + 2 + DigitRun(url, i + 3))
    ELSE <<>>

RECURSIVE DecimalValue(_)
DecimalValue(s) ==
    IF s = <<>> THEN 0
    ELSE 10 * DecimalValue(SubSeq(s, 1, Len(s) - 1)) + DigitVal(s[Len(s)])

\* CAST(s AS INTEGER): None stands for the Conversion Error DuckDB raises on
\* the empty string and on a non-number (the identifiers and offsets of the
\* model are far inside the INTEGER range)
CastInteger(s) ==
    IF s # <<>> /\ (\A i \in 1..Len(s) : IsDigit(s[i]))
    THEN Some(DecimalValue(s))
    ELSE None

---------------------------------------------------------------------------
(* The source: https://pokeapi.co/api/v2/pokemon?limit=..&offset=.. *)

\* Resource locators the pattern does not match.
BadUrls ==
    { <<"https://pokeapi.co/api/v2", "/", "pokemon", "/", "x", "/">>,
      <<"https://pokeapi.co/api/v2", "/", "pokemon", "/", "7">>,
      <<"https://pokeapi.co/api/v2", "/", "item", "/", "7", "/">> }

\* results[i] of the listing: record i of the catalogue
SourceRecord(i) ==
    [name |-> <<"pokemon-">> \o Digits(i),
     url  |-> IF i = 2 /\ source_bad # None THEN source_bad[1]
              ELSE <<"https://pokeapi.co/api/v2", "/", "pokemon", "/">> \o Digits(i) \o <<"/">>]

\* data["results"] for ?limit=limit&offset=offset: the records offset+1 ..
\* offset+limit that the catalogue holds
SourcePage(offset, limit) ==
    IF offset < 0 \/ limit <= 0 \/ offset >= CatalogSize THEN <<>>
    ELSE LET last == IF offset + limit > CatalogSize THEN CatalogSize ELSE offset + limit
         IN  [i \in 1..(last - offset) |-> SourceRecord(offset + i)]

---------------------------------------------------------------------------
(* extract_data *)

\* MAX(last_id) over the rows of metadata (rows is not empty)
MaxOf(rows) ==
    CHOOSE v \in {rows[i] : i \in DOMAIN rows} : \A i \in DOMAIN rows : rows[i] <= v

\* SELECT COALESCE(MAX(last_id), 0) FROM metadata
ReadCheckpoint == IF metadata = <<>> THEN 0 ELSE MaxOf(metadata)

\* Mutant: the argument is ignored and storage is always consulted.
ResolveOffsetStored(last_id) == ReadCheckpoint

\* if last_id is None: last_id = <the stored checkpoint>
ResolveOffset(last_id) == IF last_id = None THEN ReadCheckpoint ELSE last_id[1]

\* Mutant: the offset is returned as it came.
NextIdSame(last_id, limit) == last_id

\* the second component of the returned tuple: last_id + limit
NextId(last_id, limit) == last_id + limit

\* write_parquet(file_path): the file is created or overwritten
WriteParquet(file_path, table) ==
    [f \in DOMAIN files \cup {file_path} |-> IF f = file_path THEN table ELSE files[f]]

\* Outcomes of requests.get: an exception, or a response with its results.
FetchOutcomes(offset, limit) ==
    {[status |-> "error", results |-> <<>>],
     [status |-> "ok", results |-> SourcePage(offset, limit)]}

\* Mutant: extract_data records the offset it returns ("maintains a record of
\* the last extracted ID").
ExtractDataSaving(limit, last_id, resp) ==
    LET offset    == ResolveOffset(last_id)
        file_path == FilePath(offset)
    IN  /\ resp \in FetchOutcomes(offset, limit)
        /\ tables' = tables \cup {"metadata"}
        /\ UNCHANGED <<pokedex, pokemon_stats, source_bad>>
        /\ IF resp.status = "error" \/ resp.results = <<>>
           THEN /\ UNCHANGED <<files, metadata>>
                /\ ret' = [op |-> "extract_data", ok |-> FALSE, limit |-> limit,
                           last_id |-> last_id, offset |-> offset,
                           file_path |-> <<>>, next_id |-> 0]
           ELSE /\ files' = WriteParquet(file_path, resp.results)
                /\ metadata' = <<NextId(offset, limit)>>
                /\ ret' = [op |-> "extract_data", ok |-> TRUE, limit |-> limit,
                           last_id |-> last_id, offset |-> offset,
                           file_path |-> file_path,
                           next_id |-> NextId(offset, limit)]

\* extract_data(limit, last_id), the request ending as resp.  A listing with
\* no record makes a frame without columns, which duckdb.from_df rejects.
ExtractData(limit, last_id, resp) ==
    LET offset    == ResolveOffset(last_id)
        file_path == FilePath(offset)
    IN  /\ resp \in FetchOutcomes(offset, limit)
        /\ tables' = tables \cup {"metadata"}
        /\ UNCHANGED <<metadata, pokedex, pokemon_stats, source_bad>>
        /\ IF resp.status = "error" \/ resp.results = <<>>
           THEN /\ files' = files
                /\ ret' = [op |-> "extract_data", ok |-> FALSE, limit |-> limit,
                           last_id |-> last_id, offset |-> offset,
                           file_path |-> <<>>, next_id |-> 0]
           ELSE /\ files' = WriteParquet(file_path, resp.results)
                /\ ret' = [op |-> "extract_data", ok |-> TRUE, limit |-> limit,
                           last_id |-> last_id, offset |-> offset,
                           file_path |-> file_path,
                           next_id |-> NextId(offset, limit)]

---------------------------------------------------------------------------
(* load_data *)

\* CAST(regexp_extract(url, '/pokemon/(\d+)/', 1) AS INTEGER)
PokemonId(url) == CastInteger(RegexpExtract(url))

\* The INSERT ... SELECT raises and inserts nothing: the file cannot be read,
\* or a row's identifier cannot be cast.
InsertFails(file_path, new_last_id) ==
    \/ file_path \notin DOMAIN files
    \/ \E i \in 1..Len(files[file_path]) : PokemonId(files[file_path][i].url) = None

\* The rows the SELECT ... FROM read_parquet(file_path) yields.
SelectRows(file_path, new_last_id) ==
    [i \in 1..Len(files[file_path]) |->
        [last_id    |-> new_last_id,
         pokemon_id |-> PokemonId(files[file_path][i].url)[1],
         name       |-> files[file_path][i].name,
         url        |-> files[file_path][i].url]]

\* UPDATE metadata SET last_id = ? WHERE last_id IS NOT NULL
UpdateMetadata(rows, new_last_id) == [i \in 1..Len(rows) |-> new_last_id]

\* Mutant: the checkpoint never goes down.
WriteCheckpointMax(rows, new_last_id) ==
    IF Len(rows) = 0 THEN <<new_last_id>>
    ELSE [i \in 1..Len(rows) |-> IF rows[i] > new_last_id THEN rows[i] ELSE new_last_id]

\* Mutant: the INSERT is not guarded by the count.
WriteCheckpointAlwaysInsert(rows, new_last_id) ==
    Append(UpdateMetadata(rows, new_last_id), new_last_id)

\* Mutant: the UPDATE is missing.
WriteCheckpointInsertOnly(rows, new_last_id) ==
    IF Len(rows) = 0 THEN <<new_last_id>> ELSE rows

\* the UPDATE, then INSERT INTO metadata VALUES (?) if COUNT(*) is 0
WriteCheckpoint(rows, new_last_id) ==
    LET updated == UpdateMetadata(rows, new_last_id)
    IN  IF Len(updated) = 0 THEN Append(updated, new_last_id) ELSE updated

\* Where a storage failure (or the end of the process) can stop load_data.
Faults == {"none", "connect", "after_insert", "after_checkpoint"}

\* The call as the history keeps it; prior is metadata as the call found it.
LoadResult(file_path, new_last_id, ok, inserted) ==
    [op |-> "load_data", ok |-> ok, file_path |-> file_path,
     new_last_id |-> new_last_id, inserted |-> inserted, prior |-> metadata]

\* load_data(file_path, new_last_id); every conn.execute commits on its own.
LoadData(file_path, new_last_id, fault) ==
    /\ UNCHANGED <<pokemon_stats, files, source_bad>>
    /\ IF fault = "connect"
       THEN /\ UNCHANGED <<tables, pokedex, metadata>>
            /\ ret' = LoadResult(file_path, new_last_id, FALSE, FALSE)
       ELSE /\ tables' = tables \cup {"pokedex"}
            /\ IF InsertFails(file_path, new_last_id)
               THEN /\ UNCHANGED <<pokedex, metadata>>
                    /\ ret' = LoadResult(file_path, new_last_id, FALSE, FALSE)
               ELSE /\ pokedex' = pokedex \o SelectRows(file_path, new_last_id)
                    /\ IF fault = "after_insert" \/ "metadata" \notin tables
                       THEN /\ metadata' = metadata
                            /\ ret' = LoadResult(file_path, new_last_id, FALSE, TRUE)
                       ELSE /\ metadata' = WriteCheckpoint(metadata, new_last_id)
                            /\ ret' = LoadResult(file_path, new_last_id,
                                                 fault = "none", TRUE)

---------------------------------------------------------------------------
(* transform_data *)

\* The values of the column pokemon_id.
PokemonIds(rows) == {rows[i].pokemon_id : i \in DOMAIN rows}

\* MIN(pokemon_id), NULL over no row
MinId(rows) ==
    IF rows = <<>> THEN None
    ELSE Some(CHOOSE v \in PokemonIds(rows) : \A w \in PokemonIds(rows) : v <= w)

\* MAX(pokemon_id), NULL over no row
MaxId(rows) ==
    IF rows = <<>> THEN None
    ELSE Some(CHOOSE v \in PokemonIds(rows) : \A w \in PokemonIds(rows) : v >= w)

\* SELECT COUNT(*), MIN(pokemon_id), MAX(pokemon_id) FROM pokedex
Aggregate(rows) ==
    [total_pokemon |-> Len(rows), first_id |-> MinId(rows), last_id |-> MaxId(rows)]

\* Mutant: the new aggregate is added to the summary the table held.
ReplaceStatsAdding(old, rows) ==
    IF old = <<>> THEN <<Aggregate(rows)>>
    ELSE <<[Aggregate(rows) EXCEPT !.total_pokemon = @ + old[1].total_pokemon]>>

\* CREATE OR REPLACE TABLE pokemon_stats AS SELECT ...: one row, whatever the
\* table held before
ReplaceStats(old, rows) == <<Aggregate(rows)>>

\* transform_data(); the SELECT raises when pokedex does not exist
TransformData ==
    /\ UNCHANGED <<metadata, pokedex, files, source_bad>>
    /\ IF "pokedex" \notin tables
       THEN /\ UNCHANGED <<tables, pokemon_stats>>
            /\ ret' = [op |-> "transform_data", ok |-> FALSE]
       ELSE /\ tables' = tables \cup {"pokemon_stats"}
            /\ pokemon_stats' = ReplaceStats(pokemon_stats, pokedex)
            /\ ret' = [op |-> "transform_data", ok |-> TRUE]

---------------------------------------------------------------------------
(* The functions called in any order, with any arguments. *)

Init ==
    /\ tables = {}
    /\ metadata = <<>>
    /\ pokedex = <<>>
    /\ pokemon_stats = <<>>
    /\ files = [f \in {} |-> <<>>]
    /\ source_bad \in {None} \cup {Some(u) : u \in BadUrls}
    /\ ret = [op |-> "none", ok |-> TRUE]
    /\ pc = "extract_1"
    /\ file_path_1 = <<>> /\ new_last_id_1 = 0
    /\ file_path_2 = <<>> /\ new_last_id_2 = 0
    /\ runs = 0 /\ aborted = 0
    /\ requests = <<>> /\ loaded = <<>>

\* Arguments the calls are made with.
Limits      == {1, 2}
LastIds     == {None, Some(CatalogSize - 1)}
NewLastIds  == {CatalogSize - 1, CatalogSize}
FilePaths   == {FilePath(0), FilePath(CatalogSize - 1)}

CallExtract ==
    /\ \E limit \in Limits, last_id \in LastIds :
         \E resp \in FetchOutcomes(ResolveOffset(last_id), limit) :
            ExtractData(limit, last_id, resp)
    /\ UNCHANGED mainVars

CallLoad ==
    /\ \E file_path \in FilePaths, new_last_id \in NewLastIds :
         /\ ~InsertFails(file_path, new_last_id) =>
                Len(pokedex) + Len(files[file_path]) <= MaxRows
         /\ \E fault \in Faults : LoadData(file_path, new_last_id, fault)
    /\ UNCHANGED mainVars

CallTransform ==
    /\ TransformData
    /\ UNCHANGED mainVars

Next == CallExtract \/ CallLoad \/ CallTransform

Spec == Init /\ [][Next]_vars

---------------------------------------------------------------------------
(* main(): extract, extract, load, load, transform.  An exception in any   *)
(* call ends the run; the next run starts again at the first statement.    *)

\* The run ends: by an exception (failed) or after the last statement.
EndRun(failed) ==
    /\ pc' = "extract_1"
    /\ file_path_1' = <<>> /\ new_last_id_1' = 0
    /\ file_path_2' = <<>> /\ new_last_id_2' = 0
    /\ aborted' = IF failed THEN aborted + 1 ELSE aborted

\* file_path_1, new_last_id_1 = extract_data(limit=30, last_id=None)
MainExtract1 ==
    /\ pc = "extract_1"
    /\ runs < MaxRuns
    /\ \E resp \in FetchOutcomes(ResolveOffset(None), MainLimit) :
          ExtractData(MainLimit, None, resp)
    /\ runs' = runs + 1
    /\ requests' = Append(requests, ret'.offset)
    /\ loaded' = loaded
    /\ IF ret'.ok
       THEN /\ pc' = "extract_2"
            /\ file_path_1' = ret'.file_path
            /\ new_last_id_1' = ret'.next_id
            /\ UNCHANGED <<file_path_2, new_last_id_2, aborted>>
       ELSE EndRun(TRUE)

\* file_path_2, new_last_id_2 = extract_data(limit=30, last_id=new_last_id_1)
MainExtract2 ==
    /\ pc = "extract_2"
    /\ \E resp \in FetchOutcomes(ResolveOffset(Some(new_last_id_1)), MainLimit) :
          ExtractData(MainLimit, Some(new_last_id_1), resp)
    /\ requests' = Append(requests, ret'.offset)
    /\ UNCHANGED <<runs, loaded>>
    /\ IF ret'.ok
       THEN /\ pc' = "load_1"
            /\ file_path_2' = ret'.file_path
            /\ new_last_id_2' = ret'.next_id
            /\ UNCHANGED <<file_path_1, new_last_id_1, aborted>>
       ELSE EndRun(TRUE)

\* History: the batch whose rows the call just inserted, if it inserted any:
\* the offset its page was requested at and the tag its rows carry.
Inserted(offset) ==
    IF ret'.inserted
    THEN Append(loaded, [offset |-> offset, last_id |-> pokedex'[Len(pokedex')].last_id])
    ELSE loaded

\* load_data(file_path_1, new_last_id_1)
MainLoad1 ==
    /\ pc = "load_1"
    /\ \E fault \in Faults : LoadData(file_path_1, new_last_id_1, fault)
    /\ loaded' = Inserted(requests[Len(requests) - 1])
    /\ UNCHANGED <<runs, requests>>
    /\ IF ret'.ok
       THEN /\ pc' = "load_2"
            /\ UNCHANGED <<file_path_1, new_last_id_1, file_path_2, new_last_id_2, aborted>>
       ELSE EndRun(TRUE)

\* load_data(file_path_2, new_last_id_2)
MainLoad2 ==
    /\ pc = "load_2"
    /\ \E fault \in Faults : LoadData(file_path_2, new_last_id_2, fault)
    /\ loaded' = Inserted(requests[Len(requests)])
    /\ UNCHANGED <<runs, requests>>
    /\ IF ret'.ok
       THEN /\ pc' = "transform"
            /\ UNCHANGED <<file_path_1, new_last_id_1, file_path_2, new_last_id_2, aborted>>
       ELSE EndRun(TRUE)

\* transform_data()
MainTransform ==
    /\ pc = "transform"
    /\ TransformData
    /\ UNCHANGED <<runs, requests, loaded>>
    /\ EndRun(~ret'.ok)

MainNext == MainExtract1 \/ MainExtract2 \/ MainLoad1 \/ MainLoad2 \/ MainTransform

MainSpec == Init /\ [][MainNext]_vars

---------------------------------------------------------------------------
(* Properties. *)

\* The offset the metadata table holds, 0 when it holds no row.
StoredOffset == IF metadata = <<>> THEN 0 ELSE metadata[1]

\* No identifier appears in two rows of the accumulated table.
NoDoubleCount ==
    \A i, j \in DOMAIN pokedex : i # j => pokedex[i].pokemon_id # pokedex[j].pokemon_id

\* C1: after a load_data(file, B) that completes, the checkpoint a following
\* extract_data(last_id=None) resolves is exactly B, whatever metadata held
\* before (no row, or a row with any value).
C1_LoadSetsCheckpoint ==
    (ret.op = "load_data" /\ ret.ok) =>
        /\ ResolveOffset(None) = ret.new_last_id
        /\ metadata = <<ret.new_last_id>>

\* C1 witness: a load that completed with a batch offset below the value the
\* checkpoint row held before the call.
C1_Witness ==
    /\ ret.op = "load_data" /\ ret.ok
    /\ ret.prior = <<CatalogSize>>
    /\ ret.new_last_id = CatalogSize - 1

\* C4: the metadata table never holds more than one row, whatever calls are
\* made and however they end.
C4_SingleRow == Len(metadata) <= 1

\* C4 witness: a load has completed on a metadata table that already held a row.
C4_Witness ==
    /\ ret.op = "load_data" /\ ret.ok
    /\ Len(ret.prior) = 1
    /\ Len(metadata) = 1

\* C5: an extract_data that returns, returns next_id = resolved offset + limit,
\* the resolved offset being the argument when one is given and else the stored
\* checkpoint (0 without a row), also when the page is shorter than limit.
C5_NextOffset ==
    [][(ret'.op = "extract_data" /\ ret'.ok) =>
          ret'.next_id =
              (IF ret'.last_id # None THEN ret'.last_id[1] ELSE StoredOffset) + ret'.limit]_vars

\* C5 witness: an extract_data without last_id returned after reading a stored
\* checkpoint, and the page it wrote is shorter than limit.
C5_Witness ==
    /\ ret.op = "extract_data" /\ ret.ok
    /\ ret.last_id = None
    /\ metadata # <<>>
    /\ Len(files[ret.file_path]) < ret.limit

C8_MalformedLoadsNothing ==
    [][(/\ ret'.op = "load_data"
        /\ ret'.file_path \in DOMAIN files
        /\ \E i \in DOMAIN files[ret'.file_path] : files[ret'.file_path][i].url \in BadUrls)
       => (~ret'.ok /\ pokedex' = pokedex /\ metadata' = metadata)]_vars

\* C8 witness: a load_data raised on a file whose first record is well formed
\* and whose second is not, with a checkpoint row in place.
C8_Witness ==
    /\ ret.op = "load_data" /\ ~ret.ok /\ ~ret.inserted
    /\ ret.file_path \in DOMAIN files
    /\ Len(files[ret.file_path]) = 2
    /\ files[ret.file_path][1].url \notin BadUrls
    /\ files[ret.file_path][2].url \in BadUrls
    /\ metadata # <<>>

\* C2: while no run of main() has aborted, request i is made at offset
\* (i-1)*limit (the first of a run at the checkpoint the run before left, the
\* second limit further), a finished run leaves the checkpoint at 2*limit per
\* run, and no identifier is in the accumulated table twice.
C2_RunsResume ==
    aborted = 0 =>
        /\ \A i \in DOMAIN requests : requests[i] = (i - 1) * MainLimit
        /\ pc = "extract_1" => StoredOffset = 2 * MainLimit * runs
        /\ pc = "extract_2" => requests[Len(requests)] = 2 * MainLimit * (runs - 1)
        /\ NoDoubleCount

\* C2 witness: two runs have completed one after the other.
C2_Witness ==
    /\ aborted = 0 /\ runs = 2 /\ pc = "extract_1"
    /\ ret.op = "transform_data" /\ ret.ok
    /\ Len(pokedex) = 4 * MainLimit

\* C3 as stated: the rows of a batch carry the offset its page was requested at.
C3_TagIsFetchOffset ==
    \A i \in DOMAIN loaded : loaded[i].last_id = loaded[i].offset

\* C3 amended: the rows of a batch main() loads carry the offset its page was
\* requested at plus the limit, the next offset extract_data returned.
C3_TagIsNextOffset ==
    \A i \in DOMAIN loaded : loaded[i].last_id = loaded[i].offset + MainLimit

\* C3 witness: main() has inserted both batches of a run.
C3_Witness ==
    /\ Len(loaded) >= 2
    /\ pc = "transform"

\* C7: after transform_data the summary is one row: its count the number of
\* rows of all batches inserted (limit per batch), its first and last
\* identifier the smallest and largest identifier of all those batches.
C7_SummaryOfWholeTable ==
    (ret.op = "transform_data" /\ ret.ok) =>
        /\ Len(pokemon_stats) = 1
        /\ pokemon_stats[1].total_pokemon = MainLimit * Len(loaded)
        /\ pokemon_stats[1].total_pokemon = Len(pokedex)
        /\ \E i \in DOMAIN loaded :
              /\ pokemon_stats[1].first_id = Some(loaded[i].offset + 1)
              /\ \A j \in DOMAIN loaded : loaded[i].offset <= loaded[j].offset
        /\ \E i \in DOMAIN loaded :
              /\ pokemon_stats[1].last_id = Some(loaded[i].offset + MainLimit)
              /\ \A j \in DOMAIN loaded : loaded[i].offset >= loaded[j].offset

\* C7 witness: transform_data has replaced the summary of an earlier run, over
\* at least four batches.
C7_Witness ==
    /\ ret.op = "transform_data" /\ ret.ok
    /\ runs >= 2 /\ aborted = 0
    /\ Len(loaded) >= 4

\* C9 as stated: once a run of main() completes after an aborted one, no
\* identifier is in the accumulated table twice.
C9_NoDoubleCountAfterAbort ==
    (pc = "extract_1" /\ ret.op = "transform_data" /\ ret.ok /\ aborted > 0) =>
        NoDoubleCount

\* C10: when main() loads, the two file names differ and each file holds the
\* page requested for its own batch.
C10_FilesDistinct ==
    pc \in {"load_1", "load_2"} =>
        /\ file_path_1 # file_path_2
        /\ files[file_path_1] = SourcePage(requests[Len(requests) - 1], MainLimit)
        /\ files[file_path_2] = SourcePage(requests[Len(requests)], MainLimit)

\* C10 witness: main() is about to load the first batch, the second already
\* extracted, at offsets other than those of the first run.
C10_Witness ==
    /\ pc = "load_1"
    /\ requests[Len(requests)] > 2 * MainLimit
    /\ Len(files[file_path_1]) = MainLimit

====
